---- MODULE Spec2Model ----
(***************************************************************************)
(* A model of src/rust_module/src/lib.rs: the PII scanner (scan_pii_fast), *)
(* the entropy scanner (scan_entropy_fast) and the image signer            *)
(* (sign_c2pa_image_fast) with its PNG / JPEG container injection.         *)
(*                                                                         *)
(* Byte buffers (&[u8], Vec<u8>, the bytes of a &str) are run-length       *)
(* encoded, so that buffers of 65500 or 2^32 bytes are ordinary values;    *)
(* usize lengths are two-limb numbers, because they exceed 2^31.           *)
(***************************************************************************)
EXTENDS Integers, Sequences, FiniteSets

\* ------------------------------------------------------------------ usize
\* A usize is [hi, lo], standing for hi * 2^16 + lo with lo < 2^16.
W16 == 256 * 256

Big(n) == [hi |-> n \div W16, lo |-> n % W16]

Zero == Big(0)

One == Big(1)

BigAdd(a, b) ==
  LET lo == a.lo + b.lo
  IN  [hi |-> a.hi + b.hi + (lo \div W16), lo |-> lo % W16]

BigLt(a, b) == a.hi < b.hi \/ (a.hi = b.hi /\ a.lo < b.lo)

BigLe(a, b) == a = b \/ BigLt(a, b)

\* a - b, for b <= a
BigSub(a, b) ==
  IF a.lo >= b.lo THEN [hi |-> a.hi - b.hi, lo |-> a.lo - b.lo]
  ELSE [hi |-> a.hi - b.hi - 1, lo |-> a.lo + W16 - b.lo]

BigMin(a, b) == IF BigLt(a, b) THEN a ELSE b

\* `x as u32`: the low 32 bits of a usize
AsU32(x) == [hi |-> x.hi % W16, lo |-> x.lo]

\* `x as u16`: the low 16 bits of a usize
AsU16(x) == x.lo

\* u32::to_be_bytes, u16::to_be_bytes: most significant byte first
U32ToBeBytes(x) == <<x.hi \div 256, x.hi % 256, x.lo \div 256, x.lo % 256>>

U16ToBeBytes(x) == <<x \div 256, x % 256>>

\* ------------------------------------------------------------ byte buffers
\* A buffer is a sequence of runs [b |-> byte, n |-> usize count >= 1] in
\* which neighbouring runs hold different bytes: one buffer, one value.
Run(b, n) == [b |-> b, n |-> n]

\* Vec::extend_from_slice / push: concatenation
Cat(s, t) ==
  IF s = <<>> THEN t
  ELSE IF t = <<>> THEN s
  ELSE IF s[Len(s)].b = t[1].b
       THEN SubSeq(s, 1, Len(s) - 1)
            \o <<Run(t[1].b, BigAdd(s[Len(s)].n, t[1].n))>>
            \o Tail(t)
       ELSE s \o t

\* Buffers are split in halves rather than walked run by run, which keeps
\* the depth of every evaluation logarithmic in the number of runs.
Front(s) == SubSeq(s, 1, Len(s) \div 2)

Back(s) == SubSeq(s, Len(s) \div 2 + 1, Len(s))

RECURSIVE Lit(_)
\* the buffer of a byte literal such as b"tEXt", given as its byte values
Lit(bytes) ==
  IF bytes = <<>> THEN <<>>
  ELSE IF Len(bytes) = 1 THEN <<Run(bytes[1], One)>>
  ELSE Cat(Lit(Front(bytes)), Lit(Back(bytes)))

RECURSIVE BLen(_)
\* slice::len
BLen(s) ==
  IF s = <<>> THEN Zero
  ELSE IF Len(s) = 1 THEN s[1].n
  ELSE BigAdd(BLen(Front(s)), BLen(Back(s)))

RECURSIVE Drop(_, _)
\* &s[k..], for k <= len
Drop(s, k) ==
  IF k = Zero \/ s = <<>> THEN s
  ELSE IF Len(s) = 1
       THEN IF BigLe(s[1].n, k) THEN <<>> ELSE <<Run(s[1].b, BigSub(s[1].n, k))>>
  ELSE IF BigLe(BLen(Front(s)), k) THEN Drop(Back(s), BigSub(k, BLen(Front(s))))
  ELSE Drop(Front(s), k) \o Back(s)

RECURSIVE Take(_, _)
\* &s[0..k], for k <= len
Take(s, k) ==
  IF k = Zero \/ s = <<>> THEN <<>>
  ELSE IF Len(s) = 1
       THEN IF BigLe(s[1].n, k) THEN s ELSE <<Run(s[1].b, k)>>
  ELSE IF BigLe(BLen(Front(s)), k)
       THEN Front(s) \o Take(Back(s), BigSub(k, BLen(Front(s))))
  ELSE Take(Front(s), k)

\* &s[from..to]
Slice(s, from, to) == Take(Drop(s, from), BigSub(to, from))

\* starts_with without the length test: a slice shorter than the prefix
\* passes when it is the prefix's beginning
StartsWithShort(s, prefix) ==
  Take(s, BLen(prefix)) = Take(prefix, BLen(s))

\* slice::starts_with
StartsWith(s, prefix) ==
  /\ BigLe(BLen(prefix), BLen(s))
  /\ Take(s, BLen(prefix)) = prefix

\* ------------------------------------------------------------------ CRC-32
\* crc32fast::Hasher: CRC-32/ISO-HDLC, reflected, polynomial 0xEDB88320,
\* initial value and final xor 0xFFFFFFFF.  A u32 is [hi, lo], its two
\* 16-bit halves.
RECURSIVE Xor16(_, _)
Xor16(a, b) ==
  IF a = 0 THEN b
  ELSE IF b = 0 THEN a
  ELSE ((a + b) % 2) + 2 * Xor16(a \div 2, b \div 2)

XorW(a, b) == [hi |-> Xor16(a.hi, b.hi), lo |-> Xor16(a.lo, b.lo)]

ZeroWord == [hi |-> 0, lo |-> 0]

OnesWord == [hi |-> W16 - 1, lo |-> W16 - 1]

\* 0xEDB88320
Poly == [hi |-> 60856, lo |-> 33568]

Shr1(w) == [hi |-> w.hi \div 2, lo |-> (w.hi % 2) * 32768 + (w.lo \div 2)]

Shl1(w) == [hi |-> (w.hi % 32768) * 2 + (w.lo \div 32768), lo |-> (w.lo % 32768) * 2]

\* one bit of input: the register times x, modulo the polynomial
BitStep(w) == IF w.lo % 2 = 1 THEN XorW(Shr1(w), Poly) ELSE Shr1(w)

\* the register after one more byte
ByteStep(w, b) ==
  BitStep(BitStep(BitStep(BitStep(BitStep(BitStep(BitStep(BitStep(
    XorW(w, [hi |-> 0, lo |-> b])))))))))

RECURSIVE MulMod(_, _, _)
\* acc + a * b modulo the polynomial (bit 31 is the coefficient of x^0).
\* Here and below, binding a value in a one-element set evaluates it before
\* the recursive call, which would otherwise receive an ever deeper expression.
MulMod(a, b, acc) ==
  IF a = ZeroWord THEN acc
  ELSE CHOOSE r \in {MulMod(Shl1(a), b2, acc2) :
                       b2 \in {BitStep(b)},
                       acc2 \in {IF a.hi >= 32768 THEN XorW(acc, b) ELSE acc}} : TRUE

\* x^8 and x^0
X8 == [hi |-> 128, lo |-> 0]

X0 == [hi |-> 32768, lo |-> 0]

\* n / 2
Half(n) == [hi |-> n.hi \div 2, lo |-> ((n.hi % 2) * W16 + n.lo) \div 2]

RECURSIVE RunStep(_, _, _, _, _)
\* The register after a run of n equal bytes.  ByteStep is affine in the
\* register, ByteStep(w, b) = x^8 * w + t with t = ByteStep(0, b), so 2^k
\* bytes take w to lin * w + sum * t, where lin = x^(8 * 2^k) and
\* sum = x^0 + x^8 + ... + x^(8 * (2^k - 1)); n is taken by binary digits.
RunStep(w, t, n, lin, sum) ==
  IF n = Zero THEN w
  ELSE CHOOSE r \in {RunStep(w2, t, Half(n), lin2, sum2) :
                       w2 \in {IF n.lo % 2 = 1
                               THEN MulMod(lin, w, MulMod(sum, t, ZeroWord))
                               ELSE w},
                       lin2 \in {MulMod(lin, lin, ZeroWord)},
                       sum2 \in {MulMod(sum, lin, sum)}} : TRUE

RECURSIVE CrcRuns(_, _, _, _)
\* the register after the runs s[i .. j]
CrcRuns(w, s, i, j) ==
  IF i > j THEN w
  ELSE CHOOSE r \in {CrcRuns(w2, s, i + 1, j) :
                       w2 \in {IF s[i].n = One THEN ByteStep(w, s[i].b)
                               ELSE RunStep(w, ByteStep(ZeroWord, s[i].b), s[i].n, X8, X0)}} : TRUE

RECURSIVE CrcBlocks(_, _, _)
CrcBlocks(w, s, i) ==
  IF i > Len(s) THEN w
  ELSE CHOOSE r \in {CrcBlocks(w2, s, i + 16) :
                       w2 \in {CrcRuns(w, s, i, IF i + 15 < Len(s) THEN i + 15 ELSE Len(s))}} : TRUE

\* Hasher::update, sixteen runs at a time
CrcUpdate(w, s) == CrcBlocks(w, s, 1)

\* Hasher::new, update ..., finalize
Crc32(s) == XorW(CrcUpdate(OnesWord, s), OnesWord)

\* Vec::extend_from_slice, several times over
RECURSIVE CatAll(_)
CatAll(parts) ==
  IF parts = <<>> THEN <<>>
  ELSE IF Len(parts) = 1 THEN parts[1]
  ELSE Cat(CatAll(Front(parts)), CatAll(Back(parts)))

\* -------------------------------------------------------------- serde_json
\* serde_json::Value.  Every value is [t |-> tag, v |-> content]; an object
\* is its members [k, v] in key order with one member per key (Map is a
\* BTreeMap unless the crate's preserve_order feature is on).
Null == [t |-> "null", v |-> <<>>]

Bool(b) == [t |-> "bool", v |-> <<b>>]

Num(n) == [t |-> "num", v |-> <<n>>]

Str(bytes) == [t |-> "str", v |-> bytes]

Arr(elems) == [t |-> "arr", v |-> elems]

Obj(members) == [t |-> "obj", v |-> members]

RECURSIVE LexLt(_, _)
\* the order of String keys: bytewise lexicographic
LexLt(a, b) ==
  IF b = <<>> THEN FALSE
  ELSE IF a = <<>> THEN TRUE
  ELSE IF a[1].b # b[1].b THEN a[1].b < b[1].b
  ELSE LET m == BigMin(a[1].n, b[1].n) IN LexLt(Drop(a, m), Drop(b, m))

\* Map::insert
MapInsert(m, k, v) ==
  IF \E i \in 1 .. Len(m) : m[i].k = k
  THEN [i \in 1 .. Len(m) |-> IF m[i].k = k THEN [k |-> k, v |-> v] ELSE m[i]]
  ELSE LET pos == Cardinality({i \in 1 .. Len(m) : LexLt(m[i].k, k)})
       IN  SubSeq(m, 1, pos) \o <<[k |-> k, v |-> v]>> \o SubSeq(m, pos + 1, Len(m))

\* The parser covers the JSON that the manifests of this model are written
\* in: null, true, false, unsigned integers, strings without escapes, arrays
\* and objects, with optional white space.  A parse is [ok, val, rest].
Fail == [ok |-> FALSE, val |-> Null, rest |-> <<>>]

Ok(v, r) == [ok |-> TRUE, val |-> v, rest |-> r]

RECURSIVE SkipWs(_)
\* Deserializer::parse_whitespace: space, \n, \t, \r
SkipWs(s) ==
  IF s = <<>> \/ s[1].b \notin {32, 10, 9, 13} THEN s ELSE SkipWs(Tail(s))

\* Deserializer::parse_ident
ParseLiteral(s, word, v) ==
  IF StartsWith(s, Lit(word)) THEN Ok(v, Drop(s, Big(Len(word)))) ELSE Fail

\* the rest of a string, after its opening quote: up to the closing quote; a
\* control character is an error (escapes, \ = 92, are not in the alphabet)
ParseStr(s) ==
  LET stops == {i \in 1 .. Len(s) : s[i].b = 34 \/ s[i].b = 92 \/ s[i].b < 32}
  IN  IF stops = {} THEN Fail
      ELSE LET i == CHOOSE j \in stops : \A k \in stops : j <= k
           IN  IF s[i].b = 34
               THEN Ok(Str(SubSeq(s, 1, i - 1)), Drop(SubSeq(s, i, Len(s)), One))
               ELSE Fail

RECURSIVE ParseDigits(_, _)
ParseDigits(s, acc) ==
  IF s # <<>> /\ s[1].b \in 48 .. 57
  THEN ParseDigits(Drop(s, One), acc * 10 + (s[1].b - 48))
  ELSE Ok(Num(acc), s)

\* Deserializer::parse_integer: a leading 0 stands alone
ParseNum(s) ==
  IF s[1].b = 48
  THEN LET r == Drop(s, One)
       IN  IF r # <<>> /\ r[1].b \in 48 .. 57 THEN Fail ELSE Ok(Num(0), r)
  ELSE ParseDigits(s, 0)

RECURSIVE ParseValue(_)
RECURSIVE ParseElems(_, _)
RECURSIVE ParseMembers(_, _)
\* Deserializer::deserialize_any
ParseValue(s0) ==
  LET s == SkipWs(s0)
  IN  IF s = <<>> THEN Fail
      ELSE CASE s[1].b = 110 -> ParseLiteral(s, <<110, 117, 108, 108>>, Null)
             [] s[1].b = 116 -> ParseLiteral(s, <<116, 114, 117, 101>>, Bool(TRUE))
             [] s[1].b = 102 -> ParseLiteral(s, <<102, 97, 108, 115, 101>>, Bool(FALSE))
             [] s[1].b = 34 -> ParseStr(Drop(s, One))
             [] s[1].b \in 48 .. 57 -> ParseNum(s)
             [] s[1].b = 91 ->
                  LET r == SkipWs(Drop(s, One))
                  IN  IF r # <<>> /\ r[1].b = 93 THEN Ok(Arr(<<>>), Drop(r, One))
                      ELSE ParseElems(r, <<>>)
             [] s[1].b = 123 ->
                  LET r == SkipWs(Drop(s, One))
                  IN  IF r # <<>> /\ r[1].b = 125 THEN Ok(Obj(<<>>), Drop(r, One))
                      ELSE ParseMembers(r, <<>>)
             [] OTHER -> Fail

\* SeqAccess::next_element_seed: elements separated by commas, up to ]
ParseElems(s, acc) ==
  LET e == ParseValue(s)
      r == SkipWs(e.rest)
  IN  IF ~e.ok \/ r = <<>> THEN Fail
      ELSE IF r[1].b = 44 THEN ParseElems(Drop(r, One), Append(acc, e.val))
      ELSE IF r[1].b = 93 THEN Ok(Arr(Append(acc, e.val)), Drop(r, One))
      ELSE Fail

\* MapAccess::next_key_seed / next_value_seed: "key" : value, up to }
ParseMembers(s, acc) ==
  IF s = <<>> \/ s[1].b # 34 THEN Fail
  ELSE LET k == ParseStr(Drop(s, One))
           c == SkipWs(k.rest)
       IN  IF ~k.ok \/ c = <<>> \/ c[1].b # 58 THEN Fail
           ELSE LET e == ParseValue(Drop(c, One))
                    r == SkipWs(e.rest)
                IN  IF ~e.ok \/ r = <<>> THEN Fail
                    ELSE IF r[1].b = 44
                         THEN ParseMembers(SkipWs(Drop(r, One)),
                                           MapInsert(acc, k.val.v, e.val))
                    ELSE IF r[1].b = 125
                         THEN Ok(Obj(MapInsert(acc, k.val.v, e.val)), Drop(r, One))
                    ELSE Fail

\* serde_json::from_str::<Value>: one value, then only white space
FromStr(s) ==
  LET r == ParseValue(s)
  IN  IF r.ok /\ SkipWs(r.rest) = <<>> THEN Ok(r.val, <<>>) ELSE Fail

RECURSIVE Decimal(_)
\* itoa
Decimal(n) ==
  IF n < 10 THEN <<48 + n>> ELSE Append(Decimal(n \div 10), 48 + (n % 10))

RECURSIVE ToString(_)
RECURSIVE JoinElems(_, _)
RECURSIVE JoinMembers(_, _)
\* Value::to_string: the compact form
ToString(v) ==
  CASE v.t = "null" -> Lit(<<110, 117, 108, 108>>)
    [] v.t = "bool" -> IF v.v[1] THEN Lit(<<116, 114, 117, 101>>)
                       ELSE Lit(<<102, 97, 108, 115, 101>>)
    [] v.t = "num" -> Lit(Decimal(v.v[1]))
    [] v.t = "str" -> CatAll(<<Lit(<<34>>), v.v, Lit(<<34>>)>>)
    [] v.t = "arr" -> CatAll(<<Lit(<<91>>), JoinElems(v.v, 1), Lit(<<93>>)>>)
    [] v.t = "obj" -> CatAll(<<Lit(<<123>>), JoinMembers(v.v, 1), Lit(<<125>>)>>)

JoinElems(elems, i) ==
  IF i > Len(elems) THEN <<>>
  ELSE CatAll(<<IF i = 1 THEN <<>> ELSE Lit(<<44>>),
                ToString(elems[i]), JoinElems(elems, i + 1)>>)

JoinMembers(members, i) ==
  IF i > Len(members) THEN <<>>
  ELSE CatAll(<<IF i = 1 THEN <<>> ELSE Lit(<<44>>),
                Lit(<<34>>), members[i].k, Lit(<<34, 58>>),
                ToString(members[i].v), JoinMembers(members, i + 1)>>)

\* ------------------------------------------------------------ regex::Regex
\* A text (&str) is the sequence of its code points.  A pattern is a tree:
\* a character class, a concatenation, an alternation, a bounded or
\* unbounded (max = -1) repetition, or the word boundary \b.
Chars(set) == [k |-> "chars", set |-> set]

Seqn(parts) == [k |-> "seq", parts |-> parts]

Alt(parts) == [k |-> "alt", parts |-> parts]

Rep(node, min, max) == [k |-> "rep", node |-> node, min |-> min, max |-> max]

WordB == [k |-> "wordb"]

\* the characters of a string of ASCII digits such as "976"
Among(digits) == Chars({digits[i] : i \in 1 .. Len(digits)})

Upper == 65 .. 90

Lower == 97 .. 122

AsciiDigit == 48 .. 57

\* \d is Unicode's Nd: the ASCII digits and, of the others, the
\* Arabic-Indic ones stand for the rest
Digit == AsciiDigit \cup (1632 .. 1641)

\* \w, which \b is defined by: letters, marks, digits, connectors; of the
\* non-ASCII ones, those of the Latin-1 letters and the Arabic-Indic digits
WordChar == Upper \cup Lower \cup Digit \cup {95} \cup (192 .. 214) \cup (216 .. 246) \cup (248 .. 255)

\* what (?i) adds to a class holding A-Z and a-z: the long s and the Kelvin sign
Folded == {383, 8490}

D == Chars(Digit)

\* (?i)\b[A-Za-z0-9._%+-]+@[A-Za-z0-9.-]+\.[A-Z|a-z]{2,}\b
EMAIL_RE ==
  Seqn(<<WordB,
         Rep(Chars(Upper \cup Lower \cup Folded \cup AsciiDigit \cup {46, 95, 37, 43, 45}), 1, -1),
         Chars({64}),
         Rep(Chars(Upper \cup Lower \cup Folded \cup AsciiDigit \cup {46, 45}), 1, -1),
         Chars({46}),
         Rep(Chars(Upper \cup Lower \cup Folded \cup {124}), 2, -1),
         WordB>>)

\* \+(9[976]\d|8[987530]\d|6[987]\d|5[90]\d|42\d|3[875]\d|2[98654321]\d|
\*    9[8543210]|8[6421]|6[6543210]|5[87654321]|4[987654310]|3[9643210]|
\*    2[70]|7|1)\d{1,14}
PHONE_RE ==
  Seqn(<<Chars({43}),
         Alt(<<Seqn(<<Among(<<57>>), Among(<<57, 55, 54>>), D>>),
               Seqn(<<Among(<<56>>), Among(<<56, 57, 55, 53, 51, 48>>), D>>),
               Seqn(<<Among(<<54>>), Among(<<57, 56, 55>>), D>>),
               Seqn(<<Among(<<53>>), Among(<<57, 48>>), D>>),
               Seqn(<<Among(<<52>>), Among(<<50>>), D>>),
               Seqn(<<Among(<<51>>), Among(<<56, 55, 53>>), D>>),
               Seqn(<<Among(<<50>>), Among(<<57, 56, 54, 53, 52, 51, 50, 49>>), D>>),
               Seqn(<<Among(<<57>>), Among(<<56, 53, 52, 51, 50, 49, 48>>)>>),
               Seqn(<<Among(<<56>>), Among(<<54, 52, 50, 49>>)>>),
               Seqn(<<Among(<<54>>), Among(<<54, 53, 52, 51, 50, 49, 48>>)>>),
               Seqn(<<Among(<<53>>), Among(<<56, 55, 54, 53, 52, 51, 50, 49>>)>>),
               Seqn(<<Among(<<52>>), Among(<<57, 56, 55, 54, 53, 52, 51, 49, 48>>)>>),
               Seqn(<<Among(<<51>>), Among(<<57, 54, 52, 51, 50, 49, 48>>)>>),
               Seqn(<<Among(<<50>>), Among(<<55, 48>>)>>),
               Among(<<55>>),
               Among(<<49>>)>>),
         Rep(D, 1, 14)>>)

\* \b(?:\d{1,3}\.){3}\d{1,3}\b
IP_RE ==
  Seqn(<<WordB, Rep(Seqn(<<Rep(D, 1, 3), Chars({46})>>), 3, 3), Rep(D, 1, 3), WordB>>)

\* \b(?:\d{4}[- ]?){3}\d{4}\b
CC_RE ==
  Seqn(<<WordB, Rep(Seqn(<<Rep(D, 4, 4), Rep(Chars({45, 32}), 0, 1)>>), 3, 3),
         Rep(D, 4, 4), WordB>>)

\* whether position p (0 .. Len) of the text is preceded, followed, by a \w
WordBefore(t, p) == p > 0 /\ t[p] \in WordChar

WordAfter(t, p) == p < Len(t) /\ t[p + 1] \in WordChar

RECURSIVE MatchEnds(_, _, _)
RECURSIVE SeqEnds(_, _, _, _)
RECURSIVE RepEnds(_, _, _, _)
\* the positions at which a match of the pattern that starts at p can end
MatchEnds(re, t, p) ==
  CASE re.k = "chars" -> IF p < Len(t) /\ t[p + 1] \in re.set THEN {p + 1} ELSE {}
    [] re.k = "wordb" -> IF WordBefore(t, p) # WordAfter(t, p) THEN {p} ELSE {}
    [] re.k = "seq" -> SeqEnds(re.parts, t, {p}, 1)
    [] re.k = "alt" -> UNION {MatchEnds(re.parts[i], t, p) : i \in 1 .. Len(re.parts)}
    [] re.k = "rep" -> RepEnds(re, t, {p}, 0)

\* ... of parts[i], parts[i + 1], ... from any of the positions in from
SeqEnds(parts, t, from, i) ==
  IF i > Len(parts) \/ from = {} THEN from
  ELSE SeqEnds(parts, t, UNION {MatchEnds(parts[i], t, q) : q \in from}, i + 1)

\* ... of the repetition, done times from the positions in from
RepEnds(re, t, from, done) ==
  IF from = {} THEN {}
  ELSE (IF done >= re.min THEN from ELSE {})
       \cup (IF done = re.max THEN {}
             ELSE RepEnds(re, t, UNION {MatchEnds(re.node, t, q) : q \in from}, done + 1))

\* Regex::is_match: a match somewhere in the text
IsMatch(re, t) == \E p \in 0 .. Len(t) : MatchEnds(re, t, p) # {}

\* ------------------------------------------------------------ scan_pii_fast
\* the push at the front of the list instead of its end
PushFrontIf(findings_vec, matched, label) ==
  IF matched THEN <<label>> \o findings_vec ELSE findings_vec

\* findings.push(label) if the pattern matches
PushIf(findings_vec, matched, label) ==
  IF matched THEN Append(findings_vec, label) ELSE findings_vec

ScanPiiFast(t) ==
  PushIf(PushIf(PushIf(PushIf(<<>>,
    IsMatch(EMAIL_RE, t), "EMAIL"),
    IsMatch(PHONE_RE, t), "PHONE"),
    IsMatch(IP_RE, t), "IP_ADDRESS"),
    IsMatch(CC_RE, t), "CREDIT_CARD")

\* -------------------------------------------------------- scan_entropy_fast
\* char::is_whitespace: Unicode's White_Space
WhiteSpace ==
  (9 .. 13) \cup {32, 133, 160, 5760} \cup (8192 .. 8202) \cup {8232, 8233, 8239, 8287, 12288}

\* char::len_utf8
LenUtf8(c) == IF c < 128 THEN 1 ELSE IF c < 2048 THEN 2 ELSE IF c < 65536 THEN 3 ELSE 4

\* str::split_whitespace: the maximal runs of characters that are not white
\* space, from left to right
SplitWhitespace(t) ==
  LET starts == {i \in 1 .. Len(t) :
                   t[i] \notin WhiteSpace /\ (i = 1 \/ t[i - 1] \in WhiteSpace)}
      start(k) == CHOOSE i \in starts : Cardinality({j \in starts : j < i}) = k - 1
      end(i) == CHOOSE j \in i .. Len(t) :
                  /\ \A m \in i .. j : t[m] \notin WhiteSpace
                  /\ (j = Len(t) \/ t[j + 1] \in WhiteSpace)
  IN  [k \in 1 .. Cardinality(starts) |-> SubSeq(t, start(k), end(start(k)))]

RECURSIVE SumOver(_, _, _)
\* terms[lo] + ... + terms[hi]
SumOver(terms, lo, hi) ==
  IF lo > hi THEN 0
  ELSE IF lo = hi THEN terms[lo]
  ELSE SumOver(terms, lo, (lo + hi) \div 2) + SumOver(terms, (lo + hi) \div 2 + 1, hi)

\* str::len: the token's length in bytes
ByteLen(token) == SumOver([i \in 1 .. Len(token) |-> LenUtf8(token[i])], 1, Len(token))

\* f64::log2 of 1 .. 200, in millionths
Log2Micro ==
  <<
    0, 1000000, 1584963, 2000000, 2321928, 2584963, 2807355, 3000000, 3169925, 3321928,
    3459432, 3584963, 3700440, 3807355, 3906891, 4000000, 4087463, 4169925, 4247928, 4321928,
    4392317, 4459432, 4523562, 4584963, 4643856, 4700440, 4754888, 4807355, 4857981, 4906891,
    4954196, 5000000, 5044394, 5087463, 5129283, 5169925, 5209453, 5247928, 5285402, 5321928,
    5357552, 5392317, 5426265, 5459432, 5491853, 5523562, 5554589, 5584963, 5614710, 5643856,
    5672425, 5700440, 5727920, 5754888, 5781360, 5807355, 5832890, 5857981, 5882643, 5906891,
    5930737, 5954196, 5977280, 6000000, 6022368, 6044394, 6066089, 6087463, 6108524, 6129283,
    6149747, 6169925, 6189825, 6209453, 6228819, 6247928, 6266787, 6285402, 6303781, 6321928,
    6339850, 6357552, 6375039, 6392317, 6409391, 6426265, 6442943, 6459432, 6475733, 6491853,
    6507795, 6523562, 6539159, 6554589, 6569856, 6584963, 6599913, 6614710, 6629357, 6643856,
    6658211, 6672425, 6686501, 6700440, 6714246, 6727920, 6741467, 6754888, 6768184, 6781360,
    6794416, 6807355, 6820179, 6832890, 6845490, 6857981, 6870365, 6882643, 6894818, 6906891,
    6918863, 6930737, 6942515, 6954196, 6965784, 6977280, 6988685, 7000000, 7011227, 7022368,
    7033423, 7044394, 7055282, 7066089, 7076816, 7087463, 7098032, 7108524, 7118941, 7129283,
    7139551, 7149747, 7159871, 7169925, 7179909, 7189825, 7199672, 7209453, 7219169, 7228819,
    7238405, 7247928, 7257388, 7266787, 7276124, 7285402, 7294621, 7303781, 7312883, 7321928,
    7330917, 7339850, 7348728, 7357552, 7366322, 7375039, 7383704, 7392317, 7400879, 7409391,
    7417853, 7426265, 7434628, 7442943, 7451211, 7459432, 7467606, 7475733, 7483816, 7491853,
    7499846, 7507795, 7515700, 7523562, 7531381, 7539159, 7546894, 7554589, 7562242, 7569856,
    7577429, 7584963, 7592457, 7599913, 7607330, 7614710, 7622052, 7629357, 7636625, 7643856
  >>

\* len * entropy in millionths of a bit, for entropy = - sum of p * log2(p)
\* over the distinct characters c of the token, p = count(c) / len, and
\* len the token's length in bytes; p * log2(p) * len is
\* count * (log2(count) - log2(len)).  The term of a character is added
\* at its first occurrence.
EntropyTimesLen(token) ==
  LET len == ByteLen(token)
      term(i) ==
        IF \E j \in 1 .. i - 1 : token[j] = token[i] THEN 0
        ELSE LET count == Cardinality({j \in 1 .. Len(token) : token[j] = token[i]})
             IN  count * (Log2Micro[len] - Log2Micro[count])
  IN  SumOver([i \in 1 .. Len(token) |-> term(i)], 1, Len(token))

\* the threshold at 0.45 instead of 4.5
IsSuspiciousTenth(token) == 20 * EntropyTimesLen(token) > 9 * 1000000 * ByteLen(token)

\* if entropy > 4.5
IsSuspicious(token) == 2 * EntropyTimesLen(token) > 9 * 1000000 * ByteLen(token)

\* the body of the loop: tokens under 8 bytes are skipped
ScanEntropyFast(t) ==
  SelectSeq(SplitWhitespace(t), LAMBDA token : ~(ByteLen(token) < 8) /\ IsSuspicious(token))

\* ----------------------------------------------------- sign_c2pa_image_fast
\* Key parsing, SHA-256 and the RSA signature are the rsa and sha2 crates';
\* of them the model keeps what the function's control flow and output
\* layout rest on: whether the PEM parses, whether the modulus is long
\* enough for a SHA-256 PKCS#1 v1.5 signature, that the signature has the
\* modulus' length, and that it is a function of key and manifest.
Keys == {"not-a-key", "rsa-384", "rsa-512"}

\* a parser that takes any text for a key
FromPkcs8PemLenient(pem) ==
  [ok |-> TRUE, size |-> IF pem = "rsa-384" THEN 48 ELSE 64]

\* RsaPrivateKey::from_pkcs8_pem: [ok, size], size the modulus' bytes
FromPkcs8Pem(pem) ==
  CASE pem = "rsa-384" -> [ok |-> TRUE, size |-> 48]
    [] pem = "rsa-512" -> [ok |-> TRUE, size |-> 64]
    [] OTHER -> [ok |-> FALSE, size |-> 0]

\* Sha256::new, update, finalize: a stand-in digest in 0 .. 25
Sha256(bytes) ==
  (BLen(bytes).lo + 7 * Len(bytes) + (IF bytes = <<>> THEN 0 ELSE bytes[1].b)) % 26

\* RsaPrivateKey::sign(Pkcs1v15Sign::new::<Sha256>(), hashed): the padded
\* message is 19 bytes of DigestInfo, 32 of digest and at least 11 of padding
Sign(key, hashed) ==
  IF key.size < 19 + 32 + 11 THEN [ok |-> FALSE, size |-> 0, digest |-> 0]
  ELSE [ok |-> TRUE, size |-> key.size, digest |-> hashed]

\* BASE64.encode: 4 characters for every 3 bytes, padded with =
Base64Encode(signature) ==
  LET pad == (3 - (signature.size % 3)) % 3
      chars == 4 * ((signature.size + 2) \div 3)
  IN  Cat(<<Run(65 + signature.digest, Big(chars - pad))>>,
          IF pad = 0 THEN <<>> ELSE <<Run(61, Big(pad))>>)

\* unwrap_or_else with an empty map
UnwrapOrEmptyObject(parsed) == IF parsed.ok THEN parsed.val ELSE Obj(<<>>)

\* unwrap_or_default: Value::default() is Value::Null
UnwrapOrDefault(parsed) == IF parsed.ok THEN parsed.val ELSE Null

\* serde_json::json!({"manifest": ..., "signature": ..., "algo": ...})
FullPayload(manifest_str, sig_b64) ==
  Obj(MapInsert(MapInsert(MapInsert(<<>>,
        Lit(<<109, 97, 110, 105, 102, 101, 115, 116>>),
        UnwrapOrDefault(FromStr(manifest_str))),
        Lit(<<115, 105, 103, 110, 97, 116, 117, 114, 101>>), Str(sig_b64)),
        Lit(<<97, 108, 103, 111>>),
        Str(Lit(<<114, 115, 97, 45, 115, 104, 97, 50, 53, 54, 45, 114, 117, 115,
                  116, 45, 122, 101, 114, 111, 45, 99, 111, 112, 121>>))))

\* b"\x89PNG\r\n\x1a\n"
PngSignature == Lit(<<137, 80, 78, 71, 13, 10, 26, 10>>)

\* b"\xff\xd8"
JpegSoi == Lit(<<255, 216>>)

\* b"AgentShield-C2PA"
Keyword == Lit(<<65, 103, 101, 110, 116, 83, 104, 105, 101, 108, 100, 45, 67, 50, 80, 65>>)

\* b"tEXt"
ChunkType == Lit(<<116, 69, 88, 116>>)

\* the PNG branch with the rest of the image taken from its tenth byte
InjectPngSkipsByte(image, payload) ==
  LET chunk_data == CatAll(<<Keyword, Lit(<<0>>), payload>>)
      length == AsU32(BLen(chunk_data))
      crc == Crc32(Cat(ChunkType, chunk_data))
  IN  CatAll(<<Take(image, Big(8)),
               Lit(U32ToBeBytes(length)),
               ChunkType,
               chunk_data,
               Lit(U32ToBeBytes(crc)),
               Drop(image, Big(9))>>)

\* the PNG branch with the CRC taken over the data alone
InjectPngCrcOverData(image, payload) ==
  LET chunk_data == CatAll(<<Keyword, Lit(<<0>>), payload>>)
      length == AsU32(BLen(chunk_data))
      crc == Crc32(chunk_data)
  IN  CatAll(<<Take(image, Big(8)),
               Lit(U32ToBeBytes(length)),
               ChunkType,
               chunk_data,
               Lit(U32ToBeBytes(crc)),
               Drop(image, Big(8))>>)

\* the PNG branch: header, length, type, data, CRC, rest of the image
InjectPng(image, payload) ==
  LET chunk_data == CatAll(<<Keyword, Lit(<<0>>), payload>>)
      length == AsU32(BLen(chunk_data))
      crc == Crc32(Cat(ChunkType, chunk_data))
  IN  CatAll(<<Take(image, Big(8)),
               Lit(U32ToBeBytes(length)),
               ChunkType,
               chunk_data,
               Lit(U32ToBeBytes(crc)),
               Drop(image, Big(8))>>)

\* the COM segment's size limit
ComLimit == 65500

\* the JPEG branch with the limit at what the comment above it allows,
\* 65533 bytes of data
InjectJpegDataLimit(image, payload) ==
  CatAll(<<Take(image, Big(2)),
           IF BigLe(BLen(payload), Big(W16 - 3))
           THEN CatAll(<<Lit(<<255>>), Lit(<<254>>),
                         Lit(U16ToBeBytes(AsU16(BigAdd(BLen(payload), Big(2))))),
                         payload>>)
           ELSE <<>>,
           Drop(image, Big(2))>>)

\* the JPEG branch with the length field written before the 2 is added
InjectJpegBareLength(image, payload) ==
  CatAll(<<Take(image, Big(2)),
           IF BigLt(BLen(payload), Big(ComLimit))
           THEN CatAll(<<Lit(<<255>>), Lit(<<254>>),
                         Lit(U16ToBeBytes(AsU16(BLen(payload)))),
                         payload>>)
           ELSE <<>>,
           Drop(image, Big(2))>>)

\* the JPEG branch: SOI, the COM segment unless the payload is too long, rest
InjectJpeg(image, payload) ==
  CatAll(<<Take(image, Big(2)),
           IF BigLt(BLen(payload), Big(ComLimit))
           THEN CatAll(<<Lit(<<255>>), Lit(<<254>>),
                         Lit(U16ToBeBytes(AsU16(BigAdd(BLen(payload), Big(2))))),
                         payload>>)
           ELSE <<>>,
           Drop(image, Big(2))>>)

\* ------------------------------------------------------------------ inputs
\* Images: a head (the magic numbers, their proper prefixes and near
\* misses) followed by at most MaxTail bytes of TailBytes.
MaxTail == 1

TailBytes == {0, 216}

Heads ==
  {<<>>, <<137>>, <<137, 80, 78, 71, 13, 10, 26>>,
   <<137, 80, 78, 71, 13, 10, 26, 10>>, <<137, 80, 78, 71, 13, 10, 26, 11>>,
   <<255>>, <<255, 216>>, <<255, 217>>, <<71, 73, 70, 56>>}

Tails == UNION {[1 .. n -> TailBytes] : n \in 0 .. MaxTail}

Images == {Lit(h \o t) : h \in Heads, t \in Tails}

\* the JSON string "aa...a" of n letters
BulkString(n) == CatAll(<<Lit(<<34>>), <<Run(97, n)>>, Lit(<<34>>)>>)

\* the payload that a manifest yields under the signing key
PayloadOf(manifest_str) ==
  ToString(FullPayload(manifest_str,
     Base64Encode(Sign(FromPkcs8Pem("rsa-512"), Sha256(manifest_str)))))

\* Payload lengths on either side of the COM limit, of the 16-bit length
\* field (65534 + 2 = 2^16) and of the 32-bit one (17 + 2^32 - 17 = 2^32).
PayloadEdges ==
  {Big(ComLimit - 1), Big(ComLimit), [hi |-> 0, lo |-> W16 - 2],
   [hi |-> W16 - 1, lo |-> W16 - 18], [hi |-> W16 - 1, lo |-> W16 - 17]}

BulkLens ==
  {BigSub(e, BLen(PayloadOf(BulkString(One)))) : e \in PayloadEdges}

Manifests ==
  {<<>>,
   Lit(<<123, 125>>),                                        \* {}
   Lit(<<110, 117, 108, 108>>),                              \* null
   Lit(<<32, 91, 49, 44, 32, 34, 98, 34, 93, 32>>),          \*  [1, "b"]
   Lit(<<123, 34, 98, 34, 58, 49, 44, 34, 97, 34, 58, 91, 116, 114, 117, 101, 93, 125>>),
                                                             \* {"b":1,"a":[true]}
   Lit(<<123, 34, 97, 34, 58, 49>>),                         \* {"a":1
   Lit(<<123, 125, 32, 120>>),                               \* {} x
   Cat(Lit(<<34>>), <<Run(97, Big(ComLimit))>>)}             \* "aa...a
  \cup {BulkString(BigAdd(n, One)) : n \in BulkLens}

\* Texts: fragments one after the other, at most MaxPiiFrags of them for
\* scan_pii_fast and MaxSecretFrags for scan_entropy_fast, and the texts of
\* the unit tests.
MaxPiiFrags == 2

MaxSecretFrags == 3

RECURSIVE Flatten(_)
Flatten(frags) == IF frags = <<>> THEN <<>> ELSE frags[1] \o Flatten(Tail(frags))

TextsOf(fragments, max) ==
  {Flatten(fs) : fs \in UNION {[1 .. n -> fragments] : n \in 0 .. max}}

PiiFragments ==
  {<<106, 111, 104, 110, 64, 101, 120, 97, 109, 112, 108, 101, 46, 99, 111, 109, 32>>,
                                                      \* john@example.com, space
   <<97, 64, 98, 46, 99>>,                            \* a@b.c
   <<43, 49, 52, 49, 53, 53, 53, 53, 49, 50, 51, 52, 32>>,
                                                      \* +14155551234, space
   <<43, 48, 49>>,                                    \* +01
   <<49, 57, 50, 46, 49, 54, 56, 46, 49, 46, 49, 48, 48, 32>>,
                                                      \* 192.168.1.100, space
   <<49, 46, 50, 46, 51, 46, 1636>>,                  \* 1.2.3. and Arabic-Indic 4
   <<52, 49, 49, 49, 32, 49, 49, 49, 49, 32, 49, 49, 49, 49, 32, 49, 49, 49, 49, 32>>,
                                                      \* 4111 1111 1111 1111, space
   <<120>>, <<46>>}                                   \* x and .

\* tests::test_email_detection .. tests::test_normal_text_no_pii
TestEmail ==
  <<67, 111, 110, 116, 97, 99, 116, 32, 106, 111, 104, 110, 64, 101, 120, 97,
    109, 112, 108, 101, 46, 99, 111, 109, 32, 102, 111, 114, 32, 105, 110, 102, 111>>

TestCard ==
  <<67, 97, 114, 100, 58, 32, 52, 49, 49, 49, 45, 49, 49, 49, 49, 45, 49, 49,
    49, 49, 45, 49, 49, 49, 49>>

TestPhone == <<67, 97, 108, 108, 32, 43, 49, 52, 49, 53, 53, 53, 53, 49, 50, 51, 52>>

TestIp ==
  <<83, 101, 114, 118, 101, 114, 32, 73, 80, 58, 32, 49, 57, 50, 46, 49, 54,
    56, 46, 49, 46, 49, 48, 48>>

TestNormal ==
  <<72, 101, 108, 108, 111, 32, 119, 111, 114, 108, 100, 44, 32, 116, 104, 105,
    115, 32, 105, 115, 32, 110, 111, 114, 109, 97, 108, 32, 116, 101, 120, 116, 46>>

PiiTexts == TextsOf(PiiFragments, MaxPiiFrags) \cup {TestEmail, TestCard, TestPhone, TestIp, TestNormal}

SecretFragments ==
  {<<97, 98, 99, 100, 101, 102, 103, 104, 105, 106, 107, 108, 109, 110, 111,
     112, 113, 114, 115, 116, 117, 118, 119, 120, 32>>,     \* abcdefghijklmnopqrstuvwx, space
   <<97, 66, 51, 120, 75, 57, 109, 90, 50, 112, 81, 55, 119, 69, 53, 118, 82,
     56, 110, 76, 52, 106, 72, 54, 103, 70, 49, 99, 68, 48, 115, 89>>,
                                                             \* aB3xK9mZ2pQ7wE5vR8nL4jH6gF1cD0sY
   <<233, 233, 233, 233, 9>>,                                \* four e-acute, tab
   <<128512, 128513, 128514, 128515, 128516, 128517, 128518>>,   \* seven emoji
   <<97, 98, 99, 100, 101, 102, 103, 104>>,                  \* abcdefgh
   <<160>>}                                                  \* no-break space

\* tests::test_high_entropy_secret .. tests::test_entropy_threshold
TestSecret ==
  <<84, 111, 107, 101, 110, 58, 32, 97, 66, 51, 120, 75, 57, 109, 90, 50, 112,
    81, 55, 119, 69, 53, 118, 82, 56, 110, 76, 52, 106, 72, 54, 103, 70, 49,
    99, 68, 48, 115, 89>>

TestFox ==
  <<84, 104, 101, 32, 113, 117, 105, 99, 107, 32, 98, 114, 111, 119, 110, 32,
    102, 111, 120>>

TestShort == <<97, 98, 99, 32, 49, 50, 51, 32, 100, 101, 102>>

SecretTexts == TextsOf(SecretFragments, MaxSecretFrags) \cup {TestSecret, TestFox, TestShort}

\* ------------------------------------------------------------------- state
VARIABLES
  call,            \* the function called last
  pc,              \* where the call stands
  text, findings, secrets,   \* the text scanned and what the scan returned
  image_bytes, private_key_pem, manifest_json,   \* its arguments
  signature_b64, full_payload, payload_bytes, output_vec,   \* its locals
  ret              \* what it returned: [kind, msg, bytes]

vars == <<call, pc, text, findings, secrets, image_bytes, private_key_pem, manifest_json,
          signature_b64, full_payload, payload_bytes, output_vec, ret>>

NoReturn == [kind |-> "none", msg |-> "", bytes |-> <<>>]

Err(msg) == [kind |-> "Err", msg |-> msg, bytes |-> <<>>]

Init ==
  /\ call = "none"
  /\ pc = "idle"
  /\ text = <<>>
  /\ findings = <<>>
  /\ secrets = <<>>
  /\ image_bytes = <<>>
  /\ private_key_pem = "not-a-key"
  /\ manifest_json = <<>>
  /\ signature_b64 = <<>>
  /\ full_payload = Null
  /\ payload_bytes = <<>>
  /\ output_vec = <<>>
  /\ ret = NoReturn

\* a call of sign_c2pa_image_fast(image, pem, manifest)
SignCall(image, pem, manifest) ==
  /\ pc = "idle"
  /\ call' = "sign_c2pa_image_fast"
  /\ pc' = "parse_key"
  /\ UNCHANGED <<text, findings, secrets>>
  /\ image_bytes' = image
  /\ private_key_pem' = pem
  /\ manifest_json' = manifest
  /\ signature_b64' = <<>>
  /\ full_payload' = Null
  /\ payload_bytes' = <<>>
  /\ output_vec' = <<>>
  /\ ret' = NoReturn

\* RsaPrivateKey::from_pkcs8_pem(private_key_pem).map_err(...)?
SignParseKey ==
  /\ pc = "parse_key"
  /\ IF FromPkcs8Pem(private_key_pem).ok
     THEN pc' = "sign" /\ ret' = ret
     ELSE pc' = "returned" /\ ret' = Err("Invalid Key")
  /\ UNCHANGED <<call, text, findings, secrets, image_bytes, private_key_pem, manifest_json,
                 signature_b64, full_payload, payload_bytes, output_vec>>

\* the hash of manifest_json, its signature, the signature's base64
SignSignature ==
  /\ pc = "sign"
  /\ LET signature == Sign(FromPkcs8Pem(private_key_pem), Sha256(manifest_json))
     IN  IF signature.ok
         THEN pc' = "payload" /\ ret' = ret
              /\ signature_b64' = Base64Encode(signature)
         ELSE pc' = "returned" /\ ret' = Err("Signing failed")
              /\ signature_b64' = signature_b64
  /\ UNCHANGED <<call, text, findings, secrets, image_bytes, private_key_pem, manifest_json,
                 full_payload, payload_bytes, output_vec>>

\* full_payload, payload_str, payload_bytes, and the empty output_vec
SignPayload ==
  /\ pc = "payload"
  /\ full_payload' = FullPayload(manifest_json, signature_b64)
  /\ payload_bytes' = ToString(full_payload')
  /\ output_vec' = <<>>
  /\ pc' = "inject"
  /\ UNCHANGED <<call, text, findings, secrets, image_bytes, private_key_pem, manifest_json,
                 signature_b64, ret>>

\* if image_bytes.starts_with(b"\x89PNG\r\n\x1a\n")
SignInjectPng ==
  /\ pc = "inject"
  /\ StartsWith(image_bytes, PngSignature)
  /\ output_vec' = InjectPng(image_bytes, payload_bytes)
  /\ pc' = "return"
  /\ UNCHANGED <<call, text, findings, secrets, image_bytes, private_key_pem, manifest_json,
                 signature_b64, full_payload, payload_bytes, ret>>

\* else if image_bytes.starts_with(b"\xff\xd8")
SignInjectJpeg ==
  /\ pc = "inject"
  /\ ~StartsWith(image_bytes, PngSignature)
  /\ StartsWith(image_bytes, JpegSoi)
  /\ output_vec' = InjectJpeg(image_bytes, payload_bytes)
  /\ pc' = "return"
  /\ UNCHANGED <<call, text, findings, secrets, image_bytes, private_key_pem, manifest_json,
                 signature_b64, full_payload, payload_bytes, ret>>

\* else: the fallback
SignFallback ==
  /\ pc = "inject"
  /\ ~StartsWith(image_bytes, PngSignature)
  /\ ~StartsWith(image_bytes, JpegSoi)
  /\ output_vec' = Cat(output_vec, image_bytes)
  /\ pc' = "return"
  /\ UNCHANGED <<call, text, findings, secrets, image_bytes, private_key_pem, manifest_json,
                 signature_b64, full_payload, payload_bytes, ret>>

\* Ok(PyBytes::new_bound(py, &output_vec))
SignReturn ==
  /\ pc = "return"
  /\ ret' = [kind |-> "Ok", msg |-> "", bytes |-> output_vec]
  /\ pc' = "returned"
  /\ UNCHANGED <<call, text, findings, secrets, image_bytes, private_key_pem, manifest_json,
                 signature_b64, full_payload, payload_bytes, output_vec>>

\* a call of scan_pii_fast(t), which runs to its end
ScanPii(t) ==
  /\ pc = "idle"
  /\ call' = "scan_pii_fast"
  /\ text' = t
  /\ findings' = ScanPiiFast(t)
  /\ pc' = "returned"
  /\ UNCHANGED <<secrets, image_bytes, private_key_pem, manifest_json,
                 signature_b64, full_payload, payload_bytes, output_vec, ret>>

\* a call of scan_entropy_fast(t), which runs to its end
ScanEntropy(t) ==
  /\ pc = "idle"
  /\ call' = "scan_entropy_fast"
  /\ text' = t
  /\ secrets' = ScanEntropyFast(t)
  /\ pc' = "returned"
  /\ UNCHANGED <<findings, image_bytes, private_key_pem, manifest_json,
                 signature_b64, full_payload, payload_bytes, output_vec, ret>>

\* the caller drops the result: the functions keep nothing between calls
Finish ==
  /\ pc = "returned"
  /\ call' = "none"
  /\ pc' = "idle"
  /\ text' = <<>>
  /\ findings' = <<>>
  /\ secrets' = <<>>
  /\ image_bytes' = <<>>
  /\ private_key_pem' = "not-a-key"
  /\ manifest_json' = <<>>
  /\ signature_b64' = <<>>
  /\ full_payload' = Null
  /\ payload_bytes' = <<>>
  /\ output_vec' = <<>>
  /\ ret' = NoReturn

Next ==
  \/ \E image \in Images, pem \in Keys, manifest \in Manifests :
       SignCall(image, pem, manifest)
  \/ SignParseKey
  \/ SignSignature
  \/ SignPayload
  \/ SignInjectPng
  \/ SignInjectJpeg
  \/ SignFallback
  \/ SignReturn
  \/ \E t \in PiiTexts : ScanPii(t)
  \/ \E t \in SecretTexts : ScanEntropy(t)
  \/ Finish

Spec == Init /\ [][Next]_vars

\* ------------------------------------------------------------------ claims
\* s begins with the bytes of the literal
BeginsWith(s, bytes) ==
  /\ BigLe(Big(Len(bytes)), BLen(s))
  /\ Take(s, Big(Len(bytes))) = Lit(bytes)

IsPngInput == BeginsWith(image_bytes, <<137, 80, 78, 71, 13, 10, 26, 10>>)

IsJpegInput == ~IsPngInput /\ BeginsWith(image_bytes, <<255, 216>>)

Signed == call = "sign_c2pa_image_fast" /\ pc = "returned" /\ ret.kind = "Ok"

\* the value of a u32 that fits, as its four big-endian bytes
Be32(x) == <<x.hi \div 256, x.hi % 256, x.lo \div 256, x.lo % 256>>

FitsU32(x) == x.hi < W16

\* C1: when sign_c2pa_image_fast succeeds, its output is the image with one
\* contiguous block inserted after the first h bytes (h = 8 for PNG, 2 for
\* JPEG): the first h bytes and the rest of the image are kept verbatim,
\* cutting the block out gives back the image, and for any other format the
\* output is the image.
C1_FrameKept ==
  Signed =>
    LET out == ret.bytes
        h == IF IsPngInput THEN Big(8) ELSE IF IsJpegInput THEN Big(2) ELSE Zero
        rest == BigSub(BLen(image_bytes), h)
    IN  /\ BigLe(BLen(image_bytes), BLen(out))
        /\ Take(out, h) = Take(image_bytes, h)
        /\ Drop(out, BigSub(BLen(out), rest)) = Drop(image_bytes, h)
        /\ Cat(Take(out, h), Drop(out, BigSub(BLen(out), rest))) = image_bytes
        /\ (~IsPngInput /\ ~IsJpegInput) => out = image_bytes

C1_Witness ==
  /\ Signed
  /\ IsPngInput
  /\ BigLt(Big(8), BLen(image_bytes))
  /\ BigLt(BLen(image_bytes), BLen(ret.bytes))

\* C2: on the PNG path, a chunk data length (17 + payload length) that does
\* not fit in 32 bits makes the call fail with no output, and the length
\* field of an emitted chunk is the number of data bytes written.
C2_PngOverflowFails ==
  (call = "sign_c2pa_image_fast" /\ pc = "returned" /\ IsPngInput
   /\ payload_bytes # <<>>) =>
    LET data_len == BigAdd(Big(17), BLen(payload_bytes))
    IN  /\ ~FitsU32(data_len) => (ret.kind = "Err" /\ ret.bytes = <<>>)
        /\ ret.kind = "Ok" =>
             /\ FitsU32(data_len)
             /\ Slice(ret.bytes, Big(8), Big(12)) = Lit(Be32(data_len))

\* C3: for a PNG input and a payload Y whose chunk length fits in 32 bits,
\* the output is the 8-byte signature, then the big-endian 17 + len(Y), then
\* tEXt, then AgentShield-C2PA, 0, Y, then the big-endian CRC-32 of the type
\* and data as they stand in the output, then the original chunks.
C3_PngChunk ==
  (Signed /\ IsPngInput /\ FitsU32(BigAdd(Big(17), BLen(payload_bytes)))) =>
    LET out == ret.bytes
        n == BigAdd(Big(17), BLen(payload_bytes))
        data_end == BigAdd(Big(16), n)
    IN  /\ Take(out, Big(8)) = Lit(<<137, 80, 78, 71, 13, 10, 26, 10>>)
        /\ Slice(out, Big(8), Big(12)) = Lit(Be32(n))
        /\ Slice(out, Big(12), Big(16)) = Lit(<<116, 69, 88, 116>>)
        /\ Slice(out, Big(16), data_end)
             = CatAll(<<Lit(<<65, 103, 101, 110, 116, 83, 104, 105, 101, 108,
                              100, 45, 67, 50, 80, 65, 0>>), payload_bytes>>)
        /\ Slice(out, data_end, BigAdd(data_end, Big(4)))
             = Lit(Be32(Crc32(Slice(out, Big(12), data_end))))
        /\ Drop(out, BigAdd(data_end, Big(4))) = Drop(image_bytes, Big(8))

C3_Witness ==
  /\ Signed
  /\ IsPngInput
  /\ BigLt(Big(8), BLen(image_bytes))
  /\ BigLt(Big(ComLimit), BLen(payload_bytes))
  /\ FitsU32(BigAdd(Big(17), BLen(payload_bytes)))

\* C4: for a JPEG input J and a payload Y shorter than 65500 bytes, the
\* output is FF D8, FF FE, a two-byte big-endian field whose value is
\* len(Y) + 2, Y, and J from its third byte on.
C4_JpegSegment ==
  (Signed /\ IsJpegInput /\ BigLt(BLen(payload_bytes), Big(65500))) =>
    LET out == ret.bytes
        len == BLen(payload_bytes).lo
        field == Slice(out, Big(4), Big(6))
    IN  /\ Take(out, Big(4)) = Lit(<<255, 216, 255, 254>>)
        /\ field = Lit(<<(len + 2) \div 256, (len + 2) % 256>>)
        /\ len + 2 < W16
        /\ Slice(out, Big(6), Big(6 + len)) = payload_bytes
        /\ Drop(out, Big(6 + len)) = Drop(image_bytes, Big(2))

C4_Witness ==
  /\ Signed
  /\ IsJpegInput
  /\ BLen(payload_bytes) = Big(65499)
  /\ BigLt(Big(2), BLen(image_bytes))

\* C5: for a JPEG input J and a payload of 65500 bytes or more, the call
\* raises no error and returns J unchanged: no comment segment is emitted.
C5_JpegOversize ==
  (call = "sign_c2pa_image_fast" /\ pc = "returned" /\ IsJpegInput
   /\ BigLe(Big(65500), BLen(payload_bytes))) =>
    (ret.kind = "Ok" /\ ret.bytes = image_bytes)

C5_Witness ==
  /\ Signed
  /\ IsJpegInput
  /\ BLen(payload_bytes) = Big(65500)

\* C6: a private_key_pem that does not parse makes the call fail with the
\* invalid-key error whatever the image and the manifest, before anything is
\* signed, detected or built, and with no output bytes.
C6_InvalidKey ==
  (call = "sign_c2pa_image_fast" /\ private_key_pem = "not-a-key") =>
    /\ pc \in {"parse_key", "returned"}
    /\ pc = "returned" => ret = [kind |-> "Err", msg |-> "Invalid Key", bytes |-> <<>>]
    /\ signature_b64 = <<>>
    /\ payload_bytes = <<>>
    /\ output_vec = <<>>

C6_Witness ==
  /\ call = "sign_c2pa_image_fast"
  /\ private_key_pem = "not-a-key"
  /\ pc = "returned"
  /\ IsPngInput
  /\ FromStr(manifest_json).ok

\* the serialized payload whose "manifest" field is the given value
PayloadWith(manifest_text) ==
  CatAll(<<Lit(<<123, 34, 97, 108, 103, 111, 34, 58, 34, 114, 115, 97, 45, 115,
                 104, 97, 50, 53, 54, 45, 114, 117, 115, 116, 45, 122, 101,
                 114, 111, 45, 99, 111, 112, 121, 34, 44, 34, 109, 97, 110,
                 105, 102, 101, 115, 116, 34, 58>>),
           manifest_text,
           Lit(<<44, 34, 115, 105, 103, 110, 97, 116, 117, 114, 101, 34, 58, 34>>),
           signature_b64,
           Lit(<<34, 125>>)>>)

PayloadBuilt ==
  call = "sign_c2pa_image_fast" /\ pc \in {"inject", "return", "returned"}
  /\ private_key_pem = "rsa-512"

\* C7, as the specification states it: with a manifest_json that is not
\* valid JSON, signing succeeds and the payload's "manifest" field is an
\* empty JSON object; with valid JSON it is the parsed value.
C7_InvalidManifestEmptyObject ==
  PayloadBuilt =>
    /\ ret.kind # "Err"
    /\ payload_bytes =
         PayloadWith(IF FromStr(manifest_json).ok
                     THEN ToString(FromStr(manifest_json).val)
                     ELSE Lit(<<123, 125>>))

\* C7, amended: with a manifest_json that is not valid JSON, signing
\* succeeds and the payload's "manifest" field is JSON null (the default
\* Value); with valid JSON it is the parsed value.
C7_InvalidManifestNull ==
  PayloadBuilt =>
    /\ ret.kind # "Err"
    /\ payload_bytes =
         PayloadWith(IF FromStr(manifest_json).ok
                     THEN ToString(FromStr(manifest_json).val)
                     ELSE Lit(<<110, 117, 108, 108>>))

C7_Witness ==
  /\ PayloadBuilt
  /\ pc = "returned"
  /\ ~FromStr(manifest_json).ok
  /\ manifest_json # <<>>
  /\ payload_bytes = PayloadWith(Lit(<<110, 117, 108, 108>>))

\* C8: an image that begins with neither the PNG signature nor the JPEG SOI
\* marker (the empty image and images shorter than a magic number included)
\* is returned unchanged, without error, when the key can sign.
C8_UnsupportedUnchanged ==
  (call = "sign_c2pa_image_fast" /\ pc = "returned"
   /\ private_key_pem = "rsa-512" /\ ~IsPngInput /\ ~IsJpegInput) =>
    ret = [kind |-> "Ok", msg |-> "", bytes |-> image_bytes]

C8_Witness ==
  /\ Signed
  /\ image_bytes = Lit(<<255>>)

PiiScanned == call = "scan_pii_fast" /\ pc = "returned"

\* the label's place in the fixed order
Rank(label) ==
  CASE label = "EMAIL" -> 1
    [] label = "PHONE" -> 2
    [] label = "IP_ADDRESS" -> 3
    [] label = "CREDIT_CARD" -> 4
    [] OTHER -> 0

\* C9: scan_pii_fast returns a list that holds a category's label iff the
\* category's pattern matches somewhere in the text, without duplicates and
\* in the order EMAIL, PHONE, IP_ADDRESS, CREDIT_CARD; a text that matches
\* no pattern, the empty one included, yields the empty list; the texts of
\* the unit tests yield what the tests expect.
C9_PiiLabels ==
  PiiScanned =>
    LET has(label) == \E i \in 1 .. Len(findings) : findings[i] = label
    IN  /\ has("EMAIL") <=> IsMatch(EMAIL_RE, text)
        /\ has("PHONE") <=> IsMatch(PHONE_RE, text)
        /\ has("IP_ADDRESS") <=> IsMatch(IP_RE, text)
        /\ has("CREDIT_CARD") <=> IsMatch(CC_RE, text)
        /\ \A i \in 1 .. Len(findings) : Rank(findings[i]) > 0
        /\ \A i, j \in 1 .. Len(findings) :
             i < j => Rank(findings[i]) < Rank(findings[j])
        /\ text = <<>> => findings = <<>>
        /\ text = TestEmail => has("EMAIL")
        /\ text = TestCard => has("CREDIT_CARD")
        /\ text = TestPhone => has("PHONE")
        /\ text = TestIp => has("IP_ADDRESS")
        /\ text = TestNormal => findings = <<>>

C9_Witness ==
  /\ PiiScanned
  /\ findings = <<"EMAIL", "CREDIT_CARD">>

EntropyScanned == call = "scan_entropy_fast" /\ pc = "returned"

\* token stands in the text at position p, between white space or the ends
TokenAt(token, p) ==
  /\ p + Len(token) - 1 <= Len(text)
  /\ SubSeq(text, p, p + Len(token) - 1) = token
  /\ \A i \in 1 .. Len(token) : token[i] \notin WhiteSpace
  /\ p = 1 \/ text[p - 1] \in WhiteSpace
  /\ p + Len(token) - 1 = Len(text) \/ text[p + Len(token)] \in WhiteSpace

RECURSIVE InTextOrder(_, _)
\* secrets[k], secrets[k + 1], ... are tokens of the text from position
\* from on, one after the other
InTextOrder(k, from) ==
  \/ k > Len(secrets)
  \/ \E p \in from .. Len(text) :
       /\ TokenAt(secrets[k], p)
       /\ \A q \in from .. p - 1 : ~TokenAt(secrets[k], q)
       /\ InTextOrder(k + 1, p + Len(secrets[k]))

\* C10: scan_entropy_fast never reports a token of fewer than 8
\* characters, tokens of multi-byte characters that take 8 bytes or more
\* included, and the tokens it reports stand in the order they have in the
\* text.
C10_ShortTokensNeverReported ==
  EntropyScanned =>
    /\ \A k \in 1 .. Len(secrets) : Len(secrets[k]) >= 8
    /\ InTextOrder(1, 1)

\* a token of 4 characters and 8 bytes in a text with two reported tokens
C10_Witness ==
  /\ EntropyScanned
  /\ Len(secrets) = 2
  /\ secrets[1] # secrets[2]
  /\ \E p \in 1 .. Len(text) : TokenAt(<<233, 233, 233, 233>>, p)
====
